---- MODULE Spec2Model ----
(***************************************************************************)
(* Model of the Database facade of the data-access layer                   *)
(* (src/unnamed/part_001): its constructor, transaction(cb, {onError,      *)
(* onSuccess}), the manual transaction handle, query(uid) and destroy();   *)
(* of the uid service that queries it (src/unnamed/part_000); and of the   *)
(* reset key of the blocks editor (BlocksEditor.tsx).                      *)
(*                                                                         *)
(* Every `await` of the source is a step boundary, so the steps of         *)
(* independent call chains interleave at exactly the points where the      *)
(* event loop may switch between them.                                     *)
(***************************************************************************)
EXTENDS FiniteSets, Integers, Sequences, TLC

VARIABLES
    handles,    \* the transaction handles handed out by connection.transaction()
    nOpened,    \* number of connection.transaction() calls made so far
    db,         \* committed rows of the database: <<handle, k>>
    ctx,        \* per call chain: the store stack of the transaction context
    stack,      \* per call chain: the pending callback-form transaction() calls
    manuals,    \* the manual handle objects returned by transaction() without cb
    nCalls,     \* number of transaction() calls made so far
    metadata,   \* the uids registered in the metadata registry
    queried,    \* the outcome of the latest query(uid)
    repoCalls,  \* the uids entityManager.getRepository was called with
    subscribers,\* the lifecycle subscribers, in registration order
    pool,       \* the connection pool: "open", "closing", "released", "failed"
    destroying, \* progress of destroy(): its state, the step it awaits, and
                \* how many subscribers there were when it was called
    records,    \* uid service: the field values of the stored records, by row
    baseValue,  \* uid service: the value the chains ask a unique uid for
    uidCalls,   \* uid service: per call chain, its findUniqueUID-then-create
    checked,    \* uid service: the latest checkUIDAvailability call
    slateUpdatesCount,  \* blocks editor: the ref counting Slate's AST changes
    valueUpdatesCount,  \* blocks editor: the ref counting runs of the effect
    slateKey,   \* blocks editor: the key state given to <Slate>
    valueProp,  \* blocks editor: the value prop of the latest render
    formValue,  \* blocks editor: the value the parent holds for the next render
    operations, \* blocks editor: editor.operations at the latest Slate change
    nValues,    \* blocks editor: number of values made so far
    lastEffect, \* blocks editor: what the latest run of the effect did
    givenConfig,\* constructor: the config the Database is constructed with
    dbFields,   \* constructor: the fields of `this` assigned so far
    dialect,    \* constructor: this.dialect and what was called on it
    statements, \* constructor: the statements executed so far, in order
    constructing \* constructor: its state and the statement it is at

txVars == <<handles, nOpened, db, ctx, stack, manuals, nCalls>>

facadeVars == <<metadata, queried, repoCalls, subscribers, pool, destroying>>

uidVars == <<records, baseValue, uidCalls, checked>>

editorVars ==
    <<slateUpdatesCount, valueUpdatesCount, slateKey, valueProp, formValue,
      operations, nValues, lastEffect>>

ctorVars == <<givenConfig, dbFields, dialect, statements, constructing>>

otherVars == <<uidVars, editorVars, ctorVars>>

vars == <<txVars, facadeVars, otherVars>>

----------------------------------------------------------------------------
(* Bounds *)

MaxCalls == 3
MaxChainCalls == 2
MaxManual == 1
MaxManualCalls == 1
MaxWrites == 2
MaxLen == 2
MaxRows == 1
MaxValueLen == 1
MaxValues == 4

Chains == {"c1", "c2"}
HandleIds == 1 .. MaxCalls
None == 0

UserPcs == {"cb", "onSuccess", "onError"}

----------------------------------------------------------------------------
(* Transaction context: an async-local store, one stack of stores per      *)
(* call chain.                                                             *)

\* transactionCtx.get(): the innermost store of the chain, or none
ctxGet(c) == IF ctx[c] = <<>> THEN None ELSE ctx[c][Len(ctx[c])]

\* transactionCtx.run(store, cb): cb runs with `store` as the ambient value
ctxRun(c, store) == Append(ctx[c], store)

\* leaving the dynamic extent of run(): the stores that were there before
ctxExit(c, scope) == SubSeq(ctx[c], 1, scope)

----------------------------------------------------------------------------
(* Transaction handles (the driver's transaction objects).                 *)

UnopenedHandle ==
    [status |-> "unopened", opener |-> <<>>, commits |-> 0, rollbacks |-> 0,
     by |-> {}, writes |-> 0, written |-> 0]

\* connection.transaction(): a fresh open handle, remembered with its opener
OpenHandle(who) ==
    [status |-> "open", opener |-> who, commits |-> 0, rollbacks |-> 0,
     by |-> {}, writes |-> 0, written |-> 0]

\* trx.commit() is invoked by `who`
InvokeCommit(h, who) ==
    [handles EXCEPT ![h].commits = @ + 1, ![h].by = @ \cup {who}]

\* trx.rollback() is invoked by `who`
InvokeRollback(h, who) ==
    [handles EXCEPT ![h].rollbacks = @ + 1, ![h].by = @ \cup {who}]

Rows(h, n) == {<<h, k>> : k \in 1 .. n}

\* trx.commit() completes: the pending writes of an open handle reach the
\* database; a failed commit, or a commit of a finished handle, changes nothing
CommitDone(hs, h, ok) ==
    IF ok /\ hs[h].status = "open"
    THEN [hs EXCEPT ![h].status = "committed", ![h].writes = 0]
    ELSE hs

CommitRows(hs, h, ok) ==
    IF ok /\ hs[h].status = "open" THEN db \cup Rows(h, hs[h].writes) ELSE db

\* trx.rollback() completes: the pending writes of an open handle are dropped
RollbackDone(hs, h, ok) ==
    IF ok /\ hs[h].status = "open"
    THEN [hs EXCEPT ![h].status = "rolledback", ![h].writes = 0]
    ELSE hs

----------------------------------------------------------------------------
(* Database.transaction                                                    *)

\* const notNestedTransaction = !transactionCtx.get();
NotNestedTransaction(c) == ctxGet(c) = None

\* variant: the open handle is kept on the Database object and reused
TrxOf_Shared(c) ==
    IF NotNestedTransaction(c)
    THEN IF \E h \in 1 .. nOpened : handles[h].status = "open"
         THEN CHOOSE h \in 1 .. nOpened : handles[h].status = "open"
         ELSE nOpened + 1
    ELSE ctxGet(c)

\* const trx = notNestedTransaction ? await this.connection.transaction()
\*                                  : transactionCtx.get();
TrxOf(c) == IF NotNestedTransaction(c) THEN nOpened + 1 ELSE ctxGet(c)

\* variant: the notNestedTransaction guard is missing
Finalizes_Always(notNested) == TRUE

\* if (notNestedTransaction) { await trx.commit() / await trx.rollback() }
Finalizes(notNested) == notNested

\* variant: the callback is called directly, outside transactionCtx.run
EnterCallback_NoRun(c, trx) == ctx[c]

\* transactionCtx.run(trx, async () => {...}): the store the callback runs in
EnterCallback(c, trx) == ctxRun(c, trx)

Top(c) == stack[c][Len(stack[c])]

Depth(c) == Len(stack[c])

\* the chain is executing caller code: its top level, or the callback or a
\* hook of its innermost pending transaction() call
InUserCode(c) == IF stack[c] = <<>> THEN TRUE ELSE Top(c).pc \in UserPcs

NewFrame(c, trx, notNested) ==
    [trx |-> trx, notNested |-> notNested, pc |-> "cb",
     depth |-> Depth(c) + 1, ambientBefore |-> ctxGet(c), scope |-> Len(ctx[c]),
     cbOutcome |-> <<>>, error |-> <<>>, result |-> <<>>, log |-> <<>>]

Who(f, c) == <<"cb", c, f.depth>>

\* db.transaction(cb, {onError, onSuccess}) up to the first step of cb
Transaction(c) ==
    /\ InUserCode(c)
    /\ nCalls < MaxCalls
    /\ LET notNested == NotNestedTransaction(c)
           trx == TrxOf(c)
           f == NewFrame(c, trx, notNested)
       IN   /\ handles' = IF notNested
                          THEN [handles EXCEPT ![nOpened + 1] = OpenHandle(Who(f, c))]
                          ELSE handles
            /\ nOpened' = IF notNested THEN nOpened + 1 ELSE nOpened
            /\ ctx' = [ctx EXCEPT ![c] = EnterCallback(c, trx)]
            /\ stack' = [stack EXCEPT ![c] = Append(@, f)]
    /\ nCalls' = nCalls + 1
    /\ UNCHANGED <<db, manuals>>
    /\ UNCHANGED <<facadeVars, otherVars>>

\* return res / throw error: the promise of transaction() settles
Settled(f, r) == [f EXCEPT !.pc = "settled", !.result = r]

\* await onSuccess?.(); return res;
ToOnSuccess(f, hook) ==
    IF hook
    THEN [f EXCEPT !.pc = "onSuccess", !.log = Append(@, "onSuccess")]
    ELSE Settled(f, <<"resolved", f.cbOutcome[2]>>)

\* await onError?.(); throw error;
ToOnError(f, hook) ==
    IF hook
    THEN [f EXCEPT !.pc = "onError", !.log = Append(@, "onError")]
    ELSE Settled(f, <<"rejected", f.error>>)

\* catch (error) { if (notNestedTransaction) { await trx.rollback(); } ...
ToCatch(f, e, hook) ==
    LET g == [f EXCEPT !.error = e]
    IN IF Finalizes(g.notNested)
       THEN [g EXCEPT !.pc = "rollback", !.log = Append(@, "rollback")]
       ELSE ToOnError(g, hook)

\* variant: the commit after the callback is missing
AfterReturn_NoCommit(f, hook) ==
    CASE f.pc = "cb" ->
           ToOnSuccess([f EXCEPT !.cbOutcome = <<"ok", <<"res", f.depth>>>>], hook)
      [] f.pc = "onSuccess" -> Settled(f, <<"resolved", f.cbOutcome[2]>>)
      [] f.pc = "onError" -> Settled(f, <<"rejected", f.error>>)

\* const res = await cb(trx); if (notNestedTransaction) { await trx.commit(); } ...
AfterReturn(f, hook) ==
    CASE f.pc = "cb" ->
           LET g == [f EXCEPT !.cbOutcome = <<"ok", <<"res", f.depth>>>>]
           IN IF Finalizes(g.notNested)
              THEN [g EXCEPT !.pc = "commit", !.log = Append(@, "commit")]
              ELSE ToOnSuccess(g, hook)
      [] f.pc = "onSuccess" -> Settled(f, <<"resolved", f.cbOutcome[2]>>)
      [] f.pc = "onError" -> Settled(f, <<"rejected", f.error>>)

\* the callback or a hook throws e: everything inside `try` lands in `catch`,
\* a throw inside `catch` rejects the promise
AfterThrow(f, e, hook) ==
    CASE f.pc = "cb" -> ToCatch([f EXCEPT !.cbOutcome = <<"err", e>>], e, hook)
      [] f.pc = "onSuccess" -> ToCatch(f, e, hook)
      [] f.pc = "onError" -> Settled(f, <<"rejected", e>>)

\* the trx.commit() / trx.rollback() call that taking the frame from f to g makes
Invoked(f, g, c) ==
    IF g.pc = "commit" /\ f.pc # "commit" THEN InvokeCommit(f.trx, Who(f, c))
    ELSE IF g.pc = "rollback" /\ f.pc # "rollback" THEN InvokeRollback(f.trx, Who(f, c))
    ELSE handles

\* the frame g replaces the top of `base`; a settled call has left run()
Place(c, base, g) ==
    /\ stack' = [stack EXCEPT ![c] = Append(base, g)]
    /\ ctx' = [ctx EXCEPT ![c] = IF g.pc = "settled" THEN ctxExit(c, g.scope) ELSE @]

Below(c) == SubSeq(stack[c], 1, Len(stack[c]) - 1)

Running(c, pc) == stack[c] # <<>> /\ Top(c).pc = pc

\* cb(trx) resolves; `hook` tells whether the caller passed onSuccess
CallbackReturns(c) ==
    /\ Running(c, "cb")
    /\ \E hook \in BOOLEAN :
         LET g == AfterReturn(Top(c), hook)
         IN handles' = Invoked(Top(c), g, c) /\ Place(c, Below(c), g)
    /\ UNCHANGED <<nOpened, db, manuals, nCalls>>
    /\ UNCHANGED <<facadeVars, otherVars>>

\* cb(trx) rejects with an error of its own; `hook`: the caller passed onError
CallbackThrows(c) ==
    /\ Running(c, "cb")
    /\ \E hook \in BOOLEAN :
         LET g == AfterThrow(Top(c), <<"cb", Depth(c)>>, hook)
         IN handles' = Invoked(Top(c), g, c) /\ Place(c, Below(c), g)
    /\ UNCHANGED <<nOpened, db, manuals, nCalls>>
    /\ UNCHANGED <<facadeVars, otherVars>>

\* await trx.commit() settles in a callback-form call
CommitSettles(c) ==
    /\ Running(c, "commit")
    /\ \E ok, hook \in BOOLEAN :
         LET f == Top(c)
             g == IF ok THEN ToOnSuccess(f, hook)
                  ELSE ToCatch(f, <<"commit", f.depth>>, hook)
             hs == CommitDone(handles, f.trx, ok)
         IN /\ db' = CommitRows(handles, f.trx, ok)
            /\ handles' = IF g.pc = "rollback"
                          THEN [hs EXCEPT ![f.trx].rollbacks = @ + 1,
                                          ![f.trx].by = @ \cup {Who(f, c)}]
                          ELSE hs
            /\ Place(c, Below(c), g)
    /\ UNCHANGED <<nOpened, manuals, nCalls>>
    /\ UNCHANGED <<facadeVars, otherVars>>

\* await trx.rollback() settles in a callback-form call
RollbackSettles(c) ==
    /\ Running(c, "rollback")
    /\ \E ok, hook \in BOOLEAN :
         LET f == Top(c)
             g == IF ok THEN ToOnError(f, hook)
                  ELSE Settled(f, <<"rejected", <<"rollback", f.depth>>>>)
         IN /\ handles' = RollbackDone(handles, f.trx, ok)
            /\ Place(c, Below(c), g)
    /\ UNCHANGED <<nOpened, db, manuals, nCalls>>
    /\ UNCHANGED <<facadeVars, otherVars>>

\* onSuccess() resolves
OnSuccessReturns(c) ==
    /\ Running(c, "onSuccess")
    /\ LET g == AfterReturn(Top(c), FALSE)
       IN handles' = Invoked(Top(c), g, c) /\ Place(c, Below(c), g)
    /\ UNCHANGED <<nOpened, db, manuals, nCalls>>
    /\ UNCHANGED <<facadeVars, otherVars>>

\* onSuccess() rejects; `hook`: the caller passed onError
OnSuccessThrows(c) ==
    /\ Running(c, "onSuccess")
    /\ \E hook \in BOOLEAN :
         LET g == AfterThrow(Top(c), <<"onSuccess", Depth(c)>>, hook)
         IN handles' = Invoked(Top(c), g, c) /\ Place(c, Below(c), g)
    /\ UNCHANGED <<nOpened, db, manuals, nCalls>>
    /\ UNCHANGED <<facadeVars, otherVars>>

\* onError() resolves
OnErrorReturns(c) ==
    /\ Running(c, "onError")
    /\ LET g == AfterReturn(Top(c), FALSE)
       IN handles' = Invoked(Top(c), g, c) /\ Place(c, Below(c), g)
    /\ UNCHANGED <<nOpened, db, manuals, nCalls>>
    /\ UNCHANGED <<facadeVars, otherVars>>

\* onError() rejects
OnErrorThrows(c) ==
    /\ Running(c, "onError")
    /\ LET g == AfterThrow(Top(c), <<"onError", Depth(c)>>, FALSE)
       IN handles' = Invoked(Top(c), g, c) /\ Place(c, Below(c), g)
    /\ UNCHANGED <<nOpened, db, manuals, nCalls>>
    /\ UNCHANGED <<facadeVars, otherVars>>

\* the caller awaiting transaction() resumes with its outcome. A caller that is
\* itself a callback or a hook either lets a rejection propagate or handles it.
Resume(c) ==
    /\ Running(c, "settled")
    /\ LET child == Top(c)
           base == Below(c)
       IN IF base = <<>>
          THEN /\ stack' = [stack EXCEPT ![c] = <<>>]
               /\ UNCHANGED <<handles, ctx>>
          ELSE \E propagate, hook \in BOOLEAN :
                 LET parent == base[Len(base)]
                     rest == SubSeq(base, 1, Len(base) - 1)
                 IN IF propagate /\ child.result[1] = "rejected"
                    THEN LET g == AfterThrow(parent, child.result[2], hook)
                         IN /\ handles' = Invoked(parent, g, c)
                            /\ Place(c, rest, g)
                    ELSE /\ stack' = [stack EXCEPT ![c] = base]
                         /\ UNCHANGED <<handles, ctx>>
    /\ UNCHANGED <<nOpened, db, manuals, nCalls>>
    /\ UNCHANGED <<facadeVars, otherVars>>

----------------------------------------------------------------------------
(* The manual handle: transaction() without a callback                     *)

\* get() { return trx; }
ManualGet(m) == m.trx

\* variant: commit() of the manual handle without its guard
ManualCommits_Always(m) == TRUE

\* async commit() { if (notNestedTransaction) { await trx.commit(); } }
ManualCommits(m) == Finalizes(m.notNested)

\* async rollback() { if (notNestedTransaction) { await trx.rollback(); } }
ManualRollsBack(m) == Finalizes(m.notNested)

\* variant: rollback() of the manual handle calls trx.commit()
ManualRollbackOp_Commit == "commit"

\* the driver call that rollback() of the manual handle makes
ManualRollbackOp == "rollback"

\* if (!cb) { return { commit, rollback, get }; }
TransactionManual(c) ==
    /\ InUserCode(c)
    /\ nCalls < MaxCalls
    /\ Len(manuals) < MaxManual
    /\ LET notNested == NotNestedTransaction(c)
           trx == TrxOf(c)
           who == <<"manual", Len(manuals) + 1>>
           m == [chain |-> c, who |-> who, trx |-> trx, notNested |-> notNested,
                 ambientAtCall |-> ctxGet(c), dbAtOpen |-> db, log |-> <<>>]
       IN /\ handles' = IF notNested
                        THEN [handles EXCEPT ![nOpened + 1] = OpenHandle(who)]
                        ELSE handles
          /\ nOpened' = IF notNested THEN nOpened + 1 ELSE nOpened
          /\ manuals' = Append(manuals, m)
    /\ nCalls' = nCalls + 1
    /\ UNCHANGED <<db, ctx, stack>>
    /\ UNCHANGED <<facadeVars, otherVars>>

\* the effect of one driver call made through the manual handle
DriverCall(op, m, ok) ==
    IF op = "commit"
    THEN /\ handles' = CommitDone(InvokeCommit(m.trx, m.who), m.trx, ok)
         /\ db' = CommitRows(handles, m.trx, ok)
    ELSE /\ handles' = RollbackDone(InvokeRollback(m.trx, m.who), m.trx, ok)
         /\ db' = db

\* await handle.commit()
ManualCommit(i) ==
    /\ i <= Len(manuals)
    /\ InUserCode(manuals[i].chain)
    /\ Len(manuals[i].log) < MaxManualCalls
    /\ \E ok \in BOOLEAN :
         /\ IF ManualCommits(manuals[i])
            THEN DriverCall("commit", manuals[i], ok)
            ELSE ok /\ UNCHANGED <<handles, db>>
         /\ manuals' = [manuals EXCEPT ![i].log = Append(@, <<"commit", ok>>)]
    /\ UNCHANGED <<nOpened, ctx, stack, nCalls>>
    /\ UNCHANGED <<facadeVars, otherVars>>

\* await handle.rollback()
ManualRollback(i) ==
    /\ i <= Len(manuals)
    /\ InUserCode(manuals[i].chain)
    /\ Len(manuals[i].log) < MaxManualCalls
    /\ \E ok \in BOOLEAN :
         /\ IF ManualRollsBack(manuals[i])
            THEN DriverCall(ManualRollbackOp, manuals[i], ok)
            ELSE ok /\ UNCHANGED <<handles, db>>
         /\ manuals' = [manuals EXCEPT ![i].log = Append(@, <<"rollback", ok>>)]
    /\ UNCHANGED <<nOpened, ctx, stack, nCalls>>
    /\ UNCHANGED <<facadeVars, otherVars>>

\* a write executed on handle.get(): pending until the handle is committed
ManualWrite(i) ==
    /\ i <= Len(manuals)
    /\ InUserCode(manuals[i].chain)
    /\ handles[ManualGet(manuals[i])].status = "open"
    /\ handles[ManualGet(manuals[i])].written < MaxWrites
    /\ handles' = [handles EXCEPT ![ManualGet(manuals[i])].writes = @ + 1,
                                  ![ManualGet(manuals[i])].written = @ + 1]
    /\ UNCHANGED <<nOpened, db, ctx, stack, manuals, nCalls>>
    /\ UNCHANGED <<facadeVars, otherVars>>

----------------------------------------------------------------------------
(* Database.query and Database.destroy                                     *)

Uids == {"article", "author", "tag"}
Listeners == {"A", "B"}

NoError == [name |-> "", message |-> <<>>]
NoRepository == [repository |-> ""]
NoQuery == [kind |-> "none", uid |-> "", error |-> NoError, value |-> NoRepository]

\* variant: the registry is not consulted
MetadataHas_Always(uid) == TRUE

\* this.metadata.has(uid)
MetadataHas(uid) == uid \in metadata

\* new Error(`Model ${uid} not found`)
ModelNotFound(uid) == [name |-> "Error", message |-> <<"Model ", uid, " not found">>]

\* this.entityManager.getRepository(uid): the repository of that uid
GetRepository(uid) == [repository |-> uid]

\* query(uid)
Query(uid) ==
    /\ IF ~MetadataHas(uid)
       THEN /\ queried' = [kind |-> "thrown", uid |-> uid,
                           error |-> ModelNotFound(uid), value |-> NoRepository]
            /\ UNCHANGED repoCalls
       ELSE /\ queried' = [kind |-> "returned", uid |-> uid,
                           error |-> NoError, value |-> GetRepository(uid)]
            /\ repoCalls' = repoCalls \cup {uid}
    /\ UNCHANGED <<metadata, subscribers, pool, destroying>>
    /\ UNCHANGED <<txVars, otherVars>>

\* lifecycles.subscribe(listener), while the database is in service
Subscribe(l) ==
    /\ destroying.state = "idle"
    /\ \A i \in 1 .. Len(subscribers) : subscribers[i] # l
    /\ subscribers' = Append(subscribers, l)
    /\ UNCHANGED <<metadata, queried, repoCalls, pool, destroying>>
    /\ UNCHANGED <<txVars, otherVars>>

\* variant: the pool is released before the subscribers are cleared
DestroySteps_Swapped == <<"connection.destroy", "lifecycles.clear">>

\* async destroy() { await this.lifecycles.clear(); await this.connection.destroy(); }
DestroySteps == <<"lifecycles.clear", "connection.destroy">>

Resources == [subscribers |-> subscribers, pool |-> pool]

\* the awaited call starts
Invoke(r, step) ==
    IF step = "connection.destroy" THEN [r EXCEPT !.pool = "closing"] ELSE r

\* the awaited call settles: clear() leaves no subscriber, destroy() releases
\* the pool; a failed call leaves the subscribers as they are
Complete(r, step, ok) ==
    IF step = "lifecycles.clear"
    THEN [r EXCEPT !.subscribers = IF ok THEN <<>> ELSE @]
    ELSE [r EXCEPT !.pool = IF ok THEN "released" ELSE "failed"]

SetResources(r) == subscribers' = r.subscribers /\ pool' = r.pool

\* destroy() is called, once, at shutdown
Destroy ==
    /\ destroying.state = "idle"
    /\ destroying' = [state |-> "running", step |-> 1, had |-> Len(subscribers)]
    /\ SetResources(Invoke(Resources, DestroySteps[1]))
    /\ UNCHANGED <<metadata, queried, repoCalls>>
    /\ UNCHANGED <<txVars, otherVars>>

\* the call destroy() awaits fails: destroy() rejects
DestroyStepFails ==
    /\ destroying.state = "running"
    /\ SetResources(Complete(Resources, DestroySteps[destroying.step], FALSE))
    /\ destroying' = [destroying EXCEPT !.state = "rejected"]
    /\ UNCHANGED <<metadata, queried, repoCalls>>
    /\ UNCHANGED <<txVars, otherVars>>

\* the call destroy() awaits resolves and the next one starts
DestroyStepResolves ==
    /\ destroying.state = "running"
    /\ destroying.step < Len(DestroySteps)
    /\ destroying' = [destroying EXCEPT !.step = @ + 1]
    /\ SetResources(Invoke(Complete(Resources, DestroySteps[destroying.step], TRUE),
                           DestroySteps[destroying.step + 1]))
    /\ UNCHANGED <<metadata, queried, repoCalls>>
    /\ UNCHANGED <<txVars, otherVars>>

\* the last call destroy() awaits resolves: destroy() resolves
DestroyResolves ==
    /\ destroying.state = "running"
    /\ destroying.step = Len(DestroySteps)
    /\ SetResources(Complete(Resources, DestroySteps[destroying.step], TRUE))
    /\ destroying' = [destroying EXCEPT !.state = "resolved"]
    /\ UNCHANGED <<metadata, queried, repoCalls>>
    /\ UNCHANGED <<txVars, otherVars>>

----------------------------------------------------------------------------
(* The uid service (src/unnamed/part_000): findUniqueUID and               *)
(* checkUIDAvailability over the records of one content type and field.    *)
(* A string is the sequence of its characters.                             *)

Chars == {"a", "-", "1"}

Strings(n) == UNION {[1 .. k -> Chars] : k \in 0 .. n}

\* the values a unique uid is asked for
Values == Strings(MaxValueLen) \ {<<>>}

DigitChars == <<"0", "1", "2", "3", "4", "5", "6", "7", "8", "9">>

\* `${i}`: the decimal digits of i
RECURSIVE Digits(_)
Digits(i) ==
    IF i < 10 THEN <<DigitChars[i + 1]>>
    ELSE Digits(i \div 10) \o <<DigitChars[(i % 10) + 1]>>

\* `${value}-${i}`
Template(value, i) == value \o <<"-">> \o Digits(i)

\* { $contains: value }: value occurs in s as a substring
Contains(s, value) ==
    \E i \in 1 .. Len(s) - Len(value) + 1 :
        SubSeq(s, i, i + Len(value) - 1) = value

FindMany_Exact(rows, value) ==
    SelectSeq(rows, LAMBDA r : r = value)

\* query.findMany({where: {[field]: {$contains: value}}}) mapped to the field
FindMany(rows, value) ==
    SelectSeq(rows, LAMBDA r : Contains(r, value))

\* query.count({where: {[field]: value}})
QueryCount(rows, value) ==
    Cardinality({k \in 1 .. Len(rows) : rows[k] = value})

Includes(possibleColisions, s) ==
    \E k \in 1 .. Len(possibleColisions) : possibleColisions[k] = s

NextFree_Once(possibleColisions, value, i) ==
    Template(value, i)

\* the while loop: the first `${value}-${i}`, from i on, not among the collisions
RECURSIVE NextFree(_, _, _)
NextFree(possibleColisions, value, i) ==
    IF Includes(possibleColisions, Template(value, i))
    THEN NextFree(possibleColisions, value, i + 1)
    ELSE Template(value, i)

UniqueUID_Base(possibleColisions, value) ==
    value

\* what findUniqueUID returns once the collisions are known
UniqueUID(possibleColisions, value) ==
    IF Len(possibleColisions) = 0 THEN value
    ELSE NextFree(possibleColisions, value, 1)

\* findUniqueUID on a store that nothing else touches meanwhile
FindUniqueUID(rows, value) == UniqueUID(FindMany(rows, value), value)

\* checkUIDAvailability: false if some record has the value, true otherwise
CheckUIDAvailability(rows, value) ==
    IF QueryCount(rows, value) > 0 THEN FALSE ELSE TRUE

IdleCall ==
    [pc |-> "idle", seen |-> <<>>, possibleColisions |-> <<>>, ret |-> <<>>, row |-> 0]

NoCheck == [value |-> <<>>, available |-> FALSE, asked |-> FALSE, on |-> <<>>]

\* findUniqueUID up to its await: the query is answered from the store
FindUniqueUIDQueries(c) ==
    /\ uidCalls[c].pc = "idle"
    /\ uidCalls' = [uidCalls EXCEPT ![c] = [@ EXCEPT !.pc = "queried",
                                           !.seen = records,
                                           !.possibleColisions = FindMany(records, baseValue)]]
    /\ UNCHANGED <<records, baseValue, checked>>
    /\ UNCHANGED <<txVars, facadeVars, editorVars, ctorVars>>

\* findUniqueUID after its await: the uid is computed from the answer
FindUniqueUIDReturns(c) ==
    /\ uidCalls[c].pc = "queried"
    /\ uidCalls' = [uidCalls EXCEPT ![c] = [@ EXCEPT !.pc = "returned",
                                           !.ret = UniqueUID(uidCalls[c].possibleColisions, baseValue)]]
    /\ UNCHANGED <<records, baseValue, checked>>
    /\ UNCHANGED <<txVars, facadeVars, editorVars, ctorVars>>

\* the caller creates a record whose field is the uid it was given
Create(c) ==
    /\ uidCalls[c].pc = "returned"
    /\ records' = Append(records, uidCalls[c].ret)
    /\ uidCalls' = [uidCalls EXCEPT ![c] = [@ EXCEPT !.pc = "created",
                                                   !.row = Len(records) + 1]]
    /\ UNCHANGED <<baseValue, checked>>
    /\ UNCHANGED <<txVars, facadeVars, editorVars, ctorVars>>

\* checkUIDAvailability of the base value before findUniqueUID is called, or
\* of the uid it returned before the record is created
CheckAvailability(c) ==
    /\ uidCalls[c].pc \in {"idle", "returned"}
    /\ LET value == IF uidCalls[c].pc = "idle" THEN baseValue ELSE uidCalls[c].ret
       IN  checked' = [value |-> value,
                       available |-> CheckUIDAvailability(records, value),
                       asked |-> TRUE,
                       on |-> records]
    /\ UNCHANGED <<records, baseValue, uidCalls>>
    /\ UNCHANGED <<txVars, facadeVars, editorVars, ctorVars>>

----------------------------------------------------------------------------
(* The blocks editor (BlocksEditor.tsx): useResetKey and                   *)
(* handleSlateChange.  A value is named by where it was made and by its    *)
(* number; the effect of useResetKey runs after a render whose value prop  *)
(* is not the one of the render before.                                    *)

\* the operation batches Slate reports a change with
OperationBatches ==
    {<<"set_selection">>, <<"insert_text">>, <<"set_selection", "insert_text">>}

InitialValue == [from |-> "initial", n |-> 0]

NoEffect == [ran |-> FALSE, from |-> "", keyBefore |-> 0, inSync |-> FALSE]

\* const isAstChange = editor.operations.some((op) => op.type !== 'set_selection')
IsAstChange(ops) == \E k \in 1 .. Len(ops) : ops[k] # "set_selection"

\* the body of the effect of useResetKey, on the two refs and the key
ResetKeyEffect(refs) ==
    LET counted == [refs EXCEPT !.valueUpdatesCount = @ + 1]
    IN  IF counted.valueUpdatesCount # counted.slateUpdatesCount
        THEN [counted EXCEPT !.key = @ + 1,
                             !.slateUpdatesCount = counted.valueUpdatesCount]
        ELSE counted

Refs ==
    [slateUpdatesCount |-> slateUpdatesCount,
     valueUpdatesCount |-> valueUpdatesCount,
     key |-> slateKey]

\* a render with a value prop that the render before did not have, then the
\* effect; the first render of all is the case valueProp = no value yet
Render ==
    /\ formValue # valueProp
    /\ valueProp' = formValue
    /\ LET after == ResetKeyEffect(Refs)
       IN  /\ slateUpdatesCount' = after.slateUpdatesCount
           /\ valueUpdatesCount' = after.valueUpdatesCount
           /\ slateKey' = after.key
           /\ lastEffect' = [ran |-> TRUE,
                             from |-> formValue.from,
                             keyBefore |-> slateKey,
                             inSync |-> after.valueUpdatesCount = after.slateUpdatesCount]
    /\ UNCHANGED <<formValue, operations, nValues>>
    /\ UNCHANGED <<txVars, facadeVars, uidVars, ctorVars>>

\* handleSlateChange: Slate reports a change made by the user
HandleSlateChange(ops) ==
    /\ valueProp # <<>>
    /\ operations' = ops
    /\ IF IsAstChange(ops)
       THEN /\ nValues < MaxValues
            /\ slateUpdatesCount' = slateUpdatesCount + 1
            /\ nValues' = nValues + 1
            /\ formValue' = [from |-> "slate", n |-> nValues + 1]
       ELSE UNCHANGED <<slateUpdatesCount, nValues, formValue>>
    /\ UNCHANGED <<valueUpdatesCount, slateKey, valueProp, lastEffect>>
    /\ UNCHANGED <<txVars, facadeVars, uidVars, ctorVars>>

\* the parent is given a value that does not come from this editor
ExternalUpdate ==
    /\ valueProp # <<>>
    /\ nValues < MaxValues
    /\ nValues' = nValues + 1
    /\ formValue' = [from |-> "external", n |-> nValues + 1]
    /\ UNCHANGED <<slateUpdatesCount, valueUpdatesCount, slateKey, valueProp,
                   operations, lastEffect>>
    /\ UNCHANGED <<txVars, facadeVars, uidVars, ctorVars>>

----------------------------------------------------------------------------
(* The constructor of Database (src/unnamed/part_001 lines 17-41).  It is  *)
(* synchronous code: its statements run one after the other, and a call    *)
(* that throws ends the construction.                                      *)

Clients == {"sqlite", "postgres", "mysql"}

\* the configs a Database is constructed with: models, and optionally a
\* connection and settings (`given` holds the optional keys that are there)
GivenConfigs ==
    {cfg \in [models : SUBSET Uids,
              given : SUBSET {"connection", "settings"},
              connection : Clients \cup {""},
              settings : {"custom", ""}] :
        /\ cfg.connection # "" <=> "connection" \in cfg.given
        /\ cfg.settings # "" <=> "settings" \in cfg.given}

\* the defaults of this.config
ConfigDefaults == [connection |-> "{}", settings |-> "forceMigration"]

\* { connection: {}, settings: { forceMigration: true }, ...config }
MergedConfig(cfg) ==
    [models |-> cfg.models,
     connection |-> IF "connection" \in cfg.given THEN cfg.connection
                    ELSE ConfigDefaults.connection,
     settings |-> IF "settings" \in cfg.given THEN cfg.settings
                  ELSE ConfigDefaults.settings]

ConstructorSteps_ConnectFirst ==
    <<"createMetadata", "this.config", "getDialect", "createConnection",
      "dialect.configure", "dialect.initialize", "createSchemaProvider",
      "createMigrationsProvider", "createLifecyclesProvider",
      "createEntityManager">>

\* the statements of the constructor, in source order
ConstructorSteps ==
    <<"createMetadata", "this.config", "getDialect", "dialect.configure",
      "createConnection", "dialect.initialize", "createSchemaProvider",
      "createMigrationsProvider", "createLifecyclesProvider",
      "createEntityManager">>

\* the field of `this` a statement assigns, if any
AssignedBy(step) ==
    CASE step = "createMetadata" -> {"metadata"}
      [] step = "this.config" -> {"config"}
      [] step = "getDialect" -> {"dialect"}
      [] step = "createConnection" -> {"connection"}
      [] step = "createSchemaProvider" -> {"schema"}
      [] step = "createMigrationsProvider" -> {"migrations"}
      [] step = "createLifecyclesProvider" -> {"lifecycles"}
      [] step = "createEntityManager" -> {"entityManager"}
      [] OTHER -> {}

NoDialect == [name |-> "", configured |-> FALSE, initialized |-> FALSE, log |-> <<>>]

\* what a statement that completes does to this.metadata, this.connection
\* and this.dialect
Completed(step) ==
    /\ metadata' = IF step = "createMetadata" THEN givenConfig.models ELSE metadata
    /\ pool' = IF step = "createConnection" THEN "open" ELSE pool
    /\ dialect' =
          CASE step = "getDialect" ->
                   [dialect EXCEPT !.name = MergedConfig(givenConfig).connection]
            [] step = "dialect.configure" ->
                   [dialect EXCEPT !.configured = TRUE,
                                   !.log = Append(@, <<"configure", pool>>)]
            [] step = "dialect.initialize" ->
                   [dialect EXCEPT !.initialized = TRUE,
                                   !.log = Append(@, <<"initialize", pool>>)]
            [] OTHER -> dialect

\* the statement the constructor is at completes
ConstructorStepReturns ==
    /\ constructing.state = "running"
    /\ LET step == ConstructorSteps[constructing.at]
       IN  /\ statements' = Append(statements, step)
           /\ dbFields' = dbFields \cup AssignedBy(step)
           /\ Completed(step)
           /\ constructing' =
                 IF constructing.at = Len(ConstructorSteps)
                 THEN [state |-> "constructed", at |-> constructing.at]
                 ELSE [state |-> "running", at |-> constructing.at + 1]
    /\ UNCHANGED <<givenConfig, queried, repoCalls, subscribers, destroying>>
    /\ UNCHANGED <<txVars, uidVars, editorVars>>

\* the call the constructor is at throws: `new Database(config)` throws
ConstructorStepThrows ==
    /\ constructing.state = "running"
    /\ ConstructorSteps[constructing.at] # "this.config"
    /\ statements' = Append(statements, ConstructorSteps[constructing.at])
    /\ constructing' = [constructing EXCEPT !.state = "thrown"]
    /\ UNCHANGED <<givenConfig, dbFields, dialect>>
    /\ UNCHANGED <<facadeVars, txVars, uidVars, editorVars>>

----------------------------------------------------------------------------
(* Specifications *)

TxInit ==
    /\ handles = [h \in HandleIds |-> UnopenedHandle]
    /\ nOpened = 0
    /\ db = {}
    /\ ctx = [c \in Chains |-> <<>>]
    /\ stack = [c \in Chains |-> <<>>]
    /\ manuals = <<>>
    /\ nCalls = 0

FacadeInit ==
    /\ queried = NoQuery
    /\ repoCalls = {}
    /\ subscribers = <<>>
    /\ pool = "open"
    /\ destroying = [state |-> "idle", step |-> 0, had |-> 0]

UidInit ==
    /\ records = <<>>
    /\ baseValue = <<>>
    /\ uidCalls = [c \in Chains |-> IdleCall]
    /\ checked = NoCheck

EditorInit ==
    /\ slateUpdatesCount = 0
    /\ valueUpdatesCount = 0
    /\ slateKey = 0
    /\ valueProp = <<>>
    /\ formValue = InitialValue
    /\ operations = <<>>
    /\ nValues = 0
    /\ lastEffect = NoEffect

\* a Database whose constructor has returned
CtorInit ==
    /\ givenConfig = [models |-> Uids, given |-> {}, connection |-> "", settings |-> ""]
    /\ dbFields = UNION {AssignedBy(ConstructorSteps[k]) : k \in 1 .. Len(ConstructorSteps)}
    /\ dialect = [name |-> MergedConfig(givenConfig).connection,
                  configured |-> TRUE,
                  initialized |-> TRUE,
                  log |-> <<<<"configure", "none">>, <<"initialize", "open">>>>]
    /\ statements = ConstructorSteps
    /\ constructing = [state |-> "constructed", at |-> Len(ConstructorSteps)]

OtherInit == UidInit /\ EditorInit /\ CtorInit

\* callback-form transactions of two independent call chains
Init == TxInit /\ FacadeInit /\ metadata = Uids /\ OtherInit

Next ==
    \E c \in Chains :
        \/ Transaction(c)
        \/ CallbackReturns(c)
        \/ CallbackThrows(c)
        \/ CommitSettles(c)
        \/ RollbackSettles(c)
        \/ OnSuccessReturns(c)
        \/ OnSuccessThrows(c)
        \/ OnErrorReturns(c)
        \/ OnErrorThrows(c)
        \/ Resume(c)

Spec == Init /\ [][Next]_vars

\* one call chain that also uses manual handles, within its own call budget
ManualChains == {"c1"}

ChainTransaction(c) == nCalls < MaxChainCalls /\ Transaction(c)

ChainTransactionManual(c) == nCalls < MaxChainCalls /\ TransactionManual(c)

NextManual ==
    \/ \E c \in ManualChains :
        \/ ChainTransaction(c)
        \/ CallbackReturns(c)
        \/ CallbackThrows(c)
        \/ CommitSettles(c)
        \/ RollbackSettles(c)
        \/ OnSuccessReturns(c)
        \/ OnSuccessThrows(c)
        \/ OnErrorReturns(c)
        \/ OnErrorThrows(c)
        \/ Resume(c)
        \/ ChainTransactionManual(c)
    \/ \E i \in 1 .. MaxManual :
        \/ ManualCommit(i)
        \/ ManualRollback(i)
        \/ ManualWrite(i)

SpecManual == Init /\ [][NextManual]_vars

\* query(uid) and destroy() on a database built from any set of models
InitFacade == TxInit /\ FacadeInit /\ metadata \in SUBSET Uids /\ OtherInit

NextFacade ==
    \/ \E uid \in Uids : Query(uid)
    \/ \E l \in Listeners : Subscribe(l)
    \/ Destroy
    \/ DestroyStepFails
    \/ DestroyStepResolves
    \/ DestroyResolves

SpecFacade == InitFacade /\ [][NextFacade]_vars

\* two call chains asking for a uid of the same base value over any store
InitUID ==
    /\ TxInit /\ FacadeInit /\ metadata = Uids
    /\ records \in UNION {[1 .. n -> Strings(MaxLen)] : n \in 0 .. MaxRows}
    /\ baseValue \in Values
    /\ uidCalls = [c \in Chains |-> IdleCall]
    /\ checked = NoCheck
    /\ EditorInit
    /\ CtorInit

NextUID ==
    \E c \in Chains :
        \/ FindUniqueUIDQueries(c)
        \/ FindUniqueUIDReturns(c)
        \/ Create(c)
        \/ CheckAvailability(c)

SpecUID == InitUID /\ [][NextUID]_vars

\* one mounted blocks editor, its user and its parent
InitEditor ==
    TxInit /\ FacadeInit /\ metadata = Uids /\ UidInit /\ EditorInit /\ CtorInit

NextEditor ==
    \/ Render
    \/ \E ops \in OperationBatches : HandleSlateChange(ops)
    \/ ExternalUpdate

SpecEditor == InitEditor /\ [][NextEditor]_vars

\* `new Database(config)` for any config, from its first statement on
InitConstruct ==
    /\ TxInit /\ UidInit /\ EditorInit
    /\ metadata = {}
    /\ queried = NoQuery
    /\ repoCalls = {}
    /\ subscribers = <<>>
    /\ pool = "none"
    /\ destroying = [state |-> "idle", step |-> 0, had |-> 0]
    /\ givenConfig \in GivenConfigs
    /\ dbFields = {}
    /\ dialect = NoDialect
    /\ statements = <<>>
    /\ constructing = [state |-> "running", at |-> 1]

NextConstruct ==
    \/ ConstructorStepReturns
    \/ ConstructorStepThrows

SpecConstruct == InitConstruct /\ [][NextConstruct]_vars

----------------------------------------------------------------------------
(* Properties *)

FramesOf(c) == {stack[c][i] : i \in 1 .. Len(stack[c])}

Opened == 1 .. nOpened

Count(log, x) == Cardinality({i \in 1 .. Len(log) : log[i] = x})

CallbackFailed(f) == f.cbOutcome # <<>> /\ f.cbOutcome[1] = "err"

CallbackSucceeded(f) == f.cbOutcome # <<>> /\ f.cbOutcome[1] = "ok"

\* C1 (as claimed): when an outermost callback-form call has settled, its
\* handle has seen exactly one commit() or rollback() invocation in total, made
\* by the call that opened it, whatever failed on the way.
C1_FinalizedExactlyOnce ==
    \A c \in Chains :
        (stack[c] # <<>> /\ stack[c][1].pc = "settled") =>
            LET h == handles[stack[c][1].trx]
            IN h.commits + h.rollbacks = 1 /\ h.by = {h.opener}

\* C2 (as claimed): a call whose callback failed with E rejects with E itself,
\* and a non-nested one has rolled its handle back exactly once.
C2_CallbackErrorRejects ==
    \A c \in Chains : \A f \in FramesOf(c) :
        (f.pc = "settled" /\ CallbackFailed(f)) =>
            /\ f.result = <<"rejected", f.cbOutcome[2]>>
            /\ f.notNested => handles[f.trx].rollbacks = 1

\* C3 (state part): a call made while an ambient handle exists is nested: it opens nothing,
\* runs on the ambient handle and never invokes commit() or rollback() on it;
\* connection.transaction() is called exactly by the calls that found no
\* ambient handle, and only a handle's opener ever finalizes it.
C3_NestedState ==
    /\ \A c \in Chains : \A f \in FramesOf(c) :
          /\ f.notNested <=> f.ambientBefore = None
          /\ IF f.ambientBefore # None
             THEN /\ f.trx = f.ambientBefore
                  /\ Who(f, c) \notin handles[f.trx].by
                  /\ handles[f.trx].opener # Who(f, c)
             ELSE handles[f.trx].opener = Who(f, c)
    /\ \A h \in Opened : handles[h].by \subseteq {handles[h].opener}

C3_OpensExactlyWhenNoAmbient ==
    \A c \in Chains :
        Len(stack'[c]) > Len(stack[c]) =>
            /\ ctxGet(c) = None => nOpened' = nOpened + 1
            /\ ctxGet(c) # None => nOpened' = nOpened

\* C3: in every state the nested calls run on the ambient handle they found
\* and have finalized nothing, and every step that starts a call invokes
\* connection.transaction() exactly if the chain had no ambient handle.
C3_NestedReusesAmbient == [](C3_NestedState) /\ [][C3_OpensExactlyWhenNoAmbient]_vars

C3_Witness ==
    \E c \in Chains : \E f \in FramesOf(c) :
        /\ f.ambientBefore # None
        /\ f.pc = "settled"
        /\ handles[f.trx].status = "open"

C5_AmbientScoped ==
    \A c \in Chains :
        IF stack[c] = <<>>
        THEN ctxGet(c) = None
        ELSE /\ Top(c).pc # "settled" => ctxGet(c) = Top(c).trx
             /\ Top(c).pc = "settled" => ctxGet(c) = Top(c).ambientBefore
             /\ \A i \in 1 .. Len(stack[c]) - 1 :
                    stack[c][i + 1].ambientBefore = stack[c][i].trx

C5_Witness ==
    \E c \in Chains :
        /\ Len(stack[c]) = 2
        /\ Top(c).pc = "settled"
        /\ Top(c).result[1] = "rejected"
        /\ ctxGet(c) = stack[c][1].trx

\* C6: two chains that start transactions side by side never see each other's
\* handle: a chain's outermost call is not nested, every call of a chain runs
\* on a handle that chain opened, and a handle is committed or rolled back
\* only by the chain that opened it.
C6_ChainsIsolated ==
    /\ \A c \in Chains : \A f \in FramesOf(c) :
          /\ f.depth = 1 => f.notNested
          /\ handles[f.trx].opener[2] = c
    /\ \A c \in Chains : \A i \in 1 .. Len(ctx[c]) : handles[ctx[c][i]].opener[2] = c
    /\ \A h \in Opened : \A w \in handles[h].by : w[2] = handles[h].opener[2]

C6_Witness ==
    /\ \A c \in Chains : stack[c] # <<>> /\ stack[c][1].pc = "cb"
    /\ stack["c1"][1].trx # stack["c2"][1].trx
    /\ \E c \in Chains : Len(stack[c]) = 2

\* C7: get() of a manual handle returns the handle in use: the ambient handle
\* if there was one when transaction() was called, else the handle that call
\* opened. In the first case commit() and rollback() invoke nothing on the
\* handle; in the second each commit() invokes the handle's commit() and each
\* rollback() its rollback().
C7_ManualHandle ==
    \A i \in 1 .. Len(manuals) :
        LET m == manuals[i]
            h == handles[ManualGet(m)]
        IN IF m.ambientAtCall # None
           THEN /\ ManualGet(m) = m.ambientAtCall
                /\ h.opener # m.who
                /\ m.who \notin h.by
           ELSE /\ h.opener = m.who
                /\ h.commits = Count(m.log, <<"commit", TRUE>>)
                               + Count(m.log, <<"commit", FALSE>>)
                /\ h.rollbacks = Count(m.log, <<"rollback", TRUE>>)
                                 + Count(m.log, <<"rollback", FALSE>>)
                /\ h.by = IF m.log = <<>> THEN {} ELSE {m.who}

C7_Witness ==
    \E i \in 1 .. Len(manuals) :
        /\ manuals[i].ambientAtCall # None
        /\ manuals[i].log # <<>>
        /\ handles[manuals[i].trx].status = "open"

\* C8: after a manual handle is opened outside any transaction, two writes are
\* made on it and its rollback() completes, the database holds no row written
\* through the handle and every row it held when the handle was opened.
C8_RollbackRestores ==
    \A i \in 1 .. Len(manuals) :
        LET m == manuals[i]
        IN (/\ m.notNested
            /\ handles[m.trx].written >= 2
            /\ m.log # <<>>
            /\ m.log[1] = <<"rollback", TRUE>>) =>
               /\ {r \in db : r[1] = m.trx} = {}
               /\ m.dbAtOpen \subseteq db
               /\ handles[m.trx].writes = 0
               /\ handles[m.trx].status = "rolledback"

C8_Witness ==
    \E i \in 1 .. Len(manuals) :
        /\ manuals[i].notNested
        /\ handles[manuals[i].trx].written = 2
        /\ manuals[i].log = << <<"rollback", TRUE>> >>
        /\ db = manuals[i].dbAtOpen

C10_ClearThenRelease ==
    /\ pool # "open" => subscribers = <<>> /\ destroying.step = Len(DestroySteps)
    /\ destroying.state = "resolved" => subscribers = <<>> /\ pool = "released"

C10_Witness ==
    destroying.state = "resolved" /\ destroying.had = Cardinality(Listeners)

\* C12 (as claimed): a nested call whose callback failed with E invokes no
\* rollback and rejects with E; all it does comes before the rollback of the
\* enclosing call; and an outermost call whose callback let the E of a nested
\* callback propagate invokes rollback() once, then onError, and rejects with E.
C12_NestedFailurePropagates ==
    \A c \in Chains :
        /\ \A f \in FramesOf(c) :
              (~f.notNested /\ f.pc = "settled" /\ CallbackFailed(f)) =>
                  /\ Count(f.log, "rollback") = 0
                  /\ f.result = <<"rejected", f.cbOutcome[2]>>
        /\ \A i \in 1 .. Len(stack[c]) - 1 :
              stack[c][i].pc = "cb" => stack[c][i].log = <<>>
        /\ (/\ stack[c] # <<>>
            /\ stack[c][1].pc = "settled"
            /\ CallbackFailed(stack[c][1])
            /\ stack[c][1].cbOutcome[2] = <<"cb", 2>>) =>
               /\ stack[c][1].log \in {<<"rollback">>, <<"rollback", "onError">>}
               /\ handles[stack[c][1].trx].rollbacks = 1
               /\ stack[c][1].result = <<"rejected", <<"cb", 2>>>>

\* C13 (as claimed): a non-nested call whose callback succeeded and whose
\* commit() failed rejects with the commit error, without invoking onSuccess.
C13_CommitErrorRejects ==
    \A c \in Chains : \A f \in FramesOf(c) :
        (/\ f.pc = "settled"
         /\ f.notNested
         /\ CallbackSucceeded(f)
         /\ f.error = <<"commit", f.depth>>) =>
            /\ f.result = <<"rejected", <<"commit", f.depth>>>>
            /\ Count(f.log, "onSuccess") = 0

\* C14 (as claimed): one call invokes at most one of its hooks, at most once:
\* onSuccess only if its callback succeeded, onError only if it failed.
C14_AtMostOneHook ==
    \A c \in Chains : \A f \in FramesOf(c) :
        /\ Count(f.log, "onSuccess") + Count(f.log, "onError") <= 1
        /\ Count(f.log, "onSuccess") > 0 => CallbackSucceeded(f)
        /\ Count(f.log, "onError") > 0 => CallbackFailed(f)

\* C15 (as claimed): every call that starts as a nested transaction, from a
\* callback or from a hook, finds its ambient handle still open.
C15_NestedOnOpenHandle ==
    [][\A c \in Chains :
          (Len(stack'[c]) > Len(stack[c]) /\ ctxGet(c) # None) =>
              handles[ctxGet(c)].status = "open"]_vars

\* the chains that findUniqueUID has returned to
Returned == {c \in Chains : uidCalls[c].pc \in {"returned", "created"}}

\* the records that the query of chain c saw and whose field contains value
Containing(c, value) ==
    {uidCalls[c].seen[k] : k \in {j \in 1 .. Len(uidCalls[c].seen) :
                                     Contains(uidCalls[c].seen[j], value)}}

\* C11: two creates that take their uid from findUniqueUID with the same base
\* value, the second asking after the record of the first was stored, store
\* different values; over the rows [base] the uid is base-1, over no rows it is
\* the base value itself.
C11_SequentialUIDsDistinct ==
    /\ \A c \in Chains : \A d \in Returned \ {c} :
          (uidCalls[c].pc = "created" /\ Len(uidCalls[d].seen) >= uidCalls[c].row) =>
              uidCalls[d].ret # uidCalls[c].ret
    /\ \A c \in Returned :
          /\ uidCalls[c].seen = <<baseValue>> =>
                uidCalls[c].ret = baseValue \o <<"-", "1">>
          /\ uidCalls[c].seen = <<>> => uidCalls[c].ret = baseValue

C11_Witness ==
    /\ uidCalls["c1"].pc = "created"
    /\ uidCalls["c2"].pc = "created"
    /\ uidCalls["c1"].seen = <<baseValue>>
    /\ uidCalls["c1"].ret = baseValue \o <<"-", "1">>
    /\ Len(uidCalls["c2"].seen) >= uidCalls["c1"].row
    /\ records = <<baseValue, uidCalls["c1"].ret, uidCalls["c2"].ret>>

\* C16: findUniqueUID returns the value itself when no record it saw contains
\* the value; otherwise value-i for the least i >= 1 such that value-i is not
\* the field of a record containing the value; and what it returns is never
\* the field of a record it saw.
C16_FindUniqueUID ==
    \A c \in Returned :
        LET r == uidCalls[c].ret
            seen == uidCalls[c].seen
            containing == Containing(c, baseValue)
        IN  /\ containing = {} => r = baseValue
            /\ containing # {} =>
                  \E i \in 1 .. Len(seen) + 1 :
                      /\ r = Template(baseValue, i)
                      /\ r \notin containing
                      /\ \A j \in 1 .. i - 1 : Template(baseValue, j) \in containing
            /\ \A k \in 1 .. Len(seen) : seen[k] # r

C16_Witness ==
    \E c \in Returned :
        /\ uidCalls[c].ret = Template(baseValue, 2)
        /\ \E k \in 1 .. Len(uidCalls[c].seen) :
              /\ uidCalls[c].seen[k] # baseValue
              /\ Contains(uidCalls[c].seen[k], baseValue)

\* C17, on one store state: whatever the base value, checkUIDAvailability
\* answers true for the uid that findUniqueUID returns
C17_ReturnedIsAvailable ==
    /\ \A value \in Values :
          CheckUIDAvailability(records, FindUniqueUID(records, value))
    /\ \A c \in Returned :
          CheckUIDAvailability(uidCalls[c].seen, uidCalls[c].ret)
    /\ \A c \in Returned :
          (/\ checked.asked
           /\ checked.on = uidCalls[c].seen
           /\ checked.value = uidCalls[c].ret) => checked.available

\* C17, the steps: neither findUniqueUID nor checkUIDAvailability changes the
\* stored records
C17_ReadOnly ==
    \A c \in Chains :
        (\/ uidCalls'[c].pc \in {"queried", "returned"} /\ uidCalls'[c] # uidCalls[c]
         \/ checked' # checked) => records' = records

\* C17: the uid returned by findUniqueUID is available on the same store, and
\* neither operation changes the stored records.
C17_UniqueThenAvailable == [](C17_ReturnedIsAvailable) /\ [][C17_ReadOnly]_vars

C17_Witness ==
    /\ checked.asked
    /\ checked.available
    /\ \E c \in Returned :
          /\ checked.value = uidCalls[c].ret
          /\ checked.on = uidCalls[c].seen
          /\ uidCalls[c].ret # baseValue

\* C18 (as claimed): two chains that each call findUniqueUID with the same base
\* value and then create a record with what it returned have created records
\* with different field values, however their steps interleave.
C18_ConcurrentUIDsDistinct ==
    (uidCalls["c1"].pc = "created" /\ uidCalls["c2"].pc = "created") =>
        uidCalls["c1"].ret # uidCalls["c2"].ret

\* C19 (as claimed): a run of the effect for a value that came from a user
\* edit leaves the key as it was, a run for a value that came from outside Slate
\* adds one to the key, and after every run the two counters are equal.
C19_KeyResetsOnExternalOnly ==
    lastEffect.ran =>
        /\ lastEffect.inSync
        /\ lastEffect.from = "slate" => slateKey = lastEffect.keyBefore
        /\ lastEffect.from = "external" => slateKey = lastEffect.keyBefore + 1

\* the calls of the constructor in the order the claim gives them
C20_Order ==
    <<"createMetadata", "getDialect", "dialect.configure", "createConnection",
      "dialect.initialize", "createSchemaProvider", "createMigrationsProvider",
      "createLifecyclesProvider", "createEntityManager">>

C20_Calls == SelectSeq(statements, LAMBDA st : st # "this.config")

\* C20: the calls the constructor has made are the first ones of the fixed
\* order metadata, dialect selected, dialect configured, connection created,
\* dialect initialized, schema, migrations, lifecycles, entity manager, and all
\* of them once it has returned; dialect.configure() runs before there is a
\* connection and dialect.initialize() runs when there is one.
C20_ConstructionOrder ==
    /\ Len(C20_Calls) <= Len(C20_Order)
    /\ C20_Calls = SubSeq(C20_Order, 1, Len(C20_Calls))
    /\ constructing.state = "constructed" => C20_Calls = C20_Order
    /\ \A k \in 1 .. Len(dialect.log) :
          /\ dialect.log[k][1] = "configure" => dialect.log[k][2] = "none"
          /\ dialect.log[k][1] = "initialize" => dialect.log[k][2] = "open"
    /\ pool = "open" => dialect.configured
    /\ dialect.initialized => pool = "open"
    /\ (pool = "open" /\ constructing.state = "constructed") => dialect.initialized

C20_Witness ==
    /\ constructing.state = "constructed"
    /\ dialect.log = <<<<"configure", "none">>, <<"initialize", "open">>>>
    /\ dialect.name \in Clients
    /\ metadata = givenConfig.models
    /\ metadata # {}
    /\ dbFields = {"metadata", "config", "dialect", "connection", "schema",
                   "migrations", "lifecycles", "entityManager"}

====
